---- MODULE Spec2Model ----
(***************************************************************************)
(* Transaction lookup connectors of cert_verifier/connectors.py.           *)
(*                                                                         *)
(* A caller builds one connector (directly or through the factory), then   *)
(* calls lookup_tx on it any number of times.  lookup_tx blocks in          *)
(* requests.get; the model splits the call there: LookupTx issues the GET, *)
(* HttpResponse (or TransportFailure) runs the rest of fetch_tx and        *)
(* parse_tx and returns to the caller.                                     *)
(*                                                                         *)
(* JSON objects are functions from key to value; a key the object lacks is *)
(* a key outside its DOMAIN, so dict.get and dict[...] are modelled as the *)
(* code uses them.  Hex strings are sequences of one-character strings.    *)
(* Monetary values and spent markers are integers (satoshi amounts, 0/1    *)
(* flags), on which int() and float() do not change the value.             *)
(***************************************************************************)
EXTENDS Integers, Sequences, FiniteSets, TLC

VARIABLES
    connector,      \* the connector object: its class and self.url, or NoConnector
    call,           \* the entry point most recently invoked, with its arguments
    inflight,       \* the GET issued by requests.get that has not returned yet
    gets,           \* number of GETs issued by the current (or last) lookup_tx
    response,       \* the HTTP response r of the current (or last) lookup_tx
    decoded,        \* whether r.json() was called in the current lookup_tx
    json_response,  \* the decoded body handed to parse_tx
    parses,         \* number of parse_tx calls made by the current lookup_tx
    result,         \* what the last finished lookup_tx gave its caller
    reparsed        \* what a second parse_tx on the same json_response gave

vars == <<connector, call, inflight, gets, response, decoded, json_response,
          parses, result, reparsed>>

-----------------------------------------------------------------------------
(* Bounds of the model *)

MaxOutputs == 2

-----------------------------------------------------------------------------
(* Python values *)

None == <<"None">>
NoneAddr == "None"
Get(o, k, default) == IF k \in DOMAIN o THEN o[k] ELSE default
Slice(s, n) == SubSeq(s, n + 1, Len(s))
Raise(kind) == [kind |-> kind]
TransactionData(revoked, script) ==
    [kind |-> "TransactionData", revoked |-> revoked, script |-> script]
InvalidTransactionError(message) ==
    [kind |-> "InvalidTransactionError", message |-> message]

-----------------------------------------------------------------------------
(* Construction *)

Chains == {"mainnet", "testnet", "regtest"}
Unspecified == "unspecified"
DefaultChain == "mainnet"

BlockchainInfoUrl == <<"https://blockchain.info/rawtx/", "%s", "?cors=true">>
BlockrIOTestnetUrl == <<"https://tbtc.blockr.io/api/v1/tx/info/", "%s">>
BlockrIOMainnetUrl == <<"https://btc.blockr.io/api/v1/tx/info/", "%s">>
BlockcypherTestnetUrl ==
    <<"http://api.blockcypher.com/v1/btc/test3/txs/", "%s", "?limit=100">>
BlockcypherMainnetUrl ==
    <<"https://api.blockcypher.com/v1/btc/main/txs/", "%s", "?limit=100">>

Connector(class, url) == [kind |-> "connector", class |-> class, url |-> url]
NoConnector == [kind |-> "none"]

\* A call that passes no chain: the parameter's default applies, where the
\* signature has one.
Defaulted(chain) == IF chain = Unspecified THEN DefaultChain ELSE chain

BlockchainInfoAnyChain(chain) == Connector("BlockchainInfoConnector", BlockchainInfoUrl)

BlockchainInfoConnector(chain) ==
    IF Defaulted(chain) # "mainnet"
    THEN Raise("Exception")
    ELSE Connector("BlockchainInfoConnector", BlockchainInfoUrl)

BlockrIOConnector(chain) ==
    IF chain = Unspecified THEN Raise("TypeError")
    ELSE IF chain = "testnet" THEN Connector("BlockrIOConnector", BlockrIOTestnetUrl)
    ELSE IF chain = "mainnet" THEN Connector("BlockrIOConnector", BlockrIOMainnetUrl)
    ELSE Raise("Exception")

BlockcypherConnector(chain) ==
    IF chain = Unspecified THEN Raise("TypeError")
    ELSE IF chain = "testnet" THEN Connector("BlockcypherConnector", BlockcypherTestnetUrl)
    ELSE IF chain = "mainnet" THEN Connector("BlockcypherConnector", BlockcypherMainnetUrl)
    ELSE Raise("Exception")

createBlockcypher(chain) == BlockcypherConnector(Defaulted(chain))

createTransactionLookupConnector(chain) == BlockrIOConnector(Defaulted(chain))

Classes == {"BlockchainInfoConnector", "BlockrIOConnector", "BlockcypherConnector"}

New(class, chain) ==
    CASE class = "BlockchainInfoConnector" -> BlockchainInfoConnector(chain)
      [] class = "BlockrIOConnector" -> BlockrIOConnector(chain)
      [] class = "BlockcypherConnector" -> BlockcypherConnector(chain)

-----------------------------------------------------------------------------
(* parse_tx *)

PrefixLen == 4
SpentMark == 49

NoExc == "none"
Locals(revoked, script, exc) == [revoked |-> revoked, script |-> script, exc |-> exc]

NewRevoked == {}

NewScript == None

StripShort(script) == Slice(script, 2)

Strip(script) == Slice(script, PrefixLen)

DefaultZero(o, key) == Get(o, key, 0)

ValueOf(o, key) == Get(o, key, 1)

BlockchainInfoVisit(o, st) ==
    IF ValueOf(o, "value") = 0
    THEN IF "script" \notin DOMAIN o
         THEN [st EXCEPT !.exc = "KeyError"]
         ELSE [st EXCEPT !.script = Strip(o["script"])]
    ELSE IF Get(o, "spent", FALSE)
         THEN [st EXCEPT !.revoked = @ \cup {Get(o, "addr", NoneAddr)}]
         ELSE st

BlockrIOVisit(o, st) ==
    IF ValueOf(o, "amount") = 0
    THEN IF "extras" \notin DOMAIN o \/ "script" \notin DOMAIN o["extras"]
         THEN [st EXCEPT !.exc = "KeyError"]
         ELSE [st EXCEPT !.script = Strip(o["extras"]["script"])]
    ELSE IF Get(o, "is_spent", 0) # 0 /\ Get(o, "is_spent", 1) = SpentMark
         THEN [st EXCEPT !.revoked = @ \cup {Get(o, "address", NoneAddr)}]
         ELSE st

BlockcypherVisit(o, st) ==
    IF ValueOf(o, "value") = 0
    THEN IF "data_hex" \notin DOMAIN o
         THEN [st EXCEPT !.exc = "KeyError"]
         ELSE [st EXCEPT !.script = o["data_hex"]]
    ELSE IF Get(o, "spent_by", "") # ""
         THEN IF "addresses" \notin DOMAIN o
              THEN [st EXCEPT !.exc = "TypeError"]
              ELSE IF o["addresses"] = <<>>
                   THEN [st EXCEPT !.exc = "IndexError"]
                   ELSE [st EXCEPT !.revoked = @ \cup {o["addresses"][1]}]
         ELSE st

Visit(class, o, st) ==
    CASE class = "BlockchainInfoConnector" -> BlockchainInfoVisit(o, st)
      [] class = "BlockrIOConnector" -> BlockrIOVisit(o, st)
      [] class = "BlockcypherConnector" -> BlockcypherVisit(o, st)

RECURSIVE Loop(_, _, _)
Loop(class, outs, st) ==
    IF outs = <<>> \/ st.exc # NoExc
    THEN st
    ELSE Loop(class, Tail(outs), Visit(class, Head(outs), st))

HasOutputs(class, doc) ==
    CASE class = "BlockchainInfoConnector" -> "out" \in DOMAIN doc
      [] class = "BlockrIOConnector" ->
            "data" \in DOMAIN doc /\ "vouts" \in DOMAIN doc["data"]
      [] class = "BlockcypherConnector" -> "outputs" \in DOMAIN doc

OutputsOf(class, doc) ==
    CASE class = "BlockchainInfoConnector" -> doc["out"]
      [] class = "BlockrIOConnector" -> doc["data"]["vouts"]
      [] class = "BlockcypherConnector" -> doc["outputs"]

MissingScript == "transaction response is missing op_return script"

parse_tx(class, doc) ==
    IF ~HasOutputs(class, doc)
    THEN Raise("KeyError")
    ELSE LET st == Loop(class, OutputsOf(class, doc),
                        Locals(NewRevoked, NewScript, NoExc))
         IN  IF st.exc # NoExc THEN Raise(st.exc)
             ELSE IF st.script = None \/ st.script = <<>>
                  THEN InvalidTransactionError(MissingScript)
                  ELSE TransactionData(st.revoked, st.script)

Emptied(class, doc) ==
    CASE class = "BlockchainInfoConnector" -> [doc EXCEPT !["out"] = <<>>]
      [] class = "BlockrIOConnector" -> [doc EXCEPT !["data"]["vouts"] = <<>>]
      [] class = "BlockcypherConnector" -> [doc EXCEPT !["outputs"] = <<>>]

Consumed(class, doc) == IF HasOutputs(class, doc) THEN Emptied(class, doc) ELSE doc

-----------------------------------------------------------------------------
(* fetch_tx *)

OK == 200

Format(url, txid) == [i \in DOMAIN url |-> IF url[i] = "%s" THEN txid ELSE url[i]]

Below400(status_code) == status_code < 400

AnyStatus(status_code) == TRUE

StatusOk(status_code) == ~(status_code # OK)

LookupError(txid) == InvalidTransactionError(<<"error looking up transaction_id=", txid>>)

fetch_tx(txid, r) ==
    IF ~StatusOk(r.status_code)
    THEN [raised |-> TRUE, decoded |-> FALSE, exc |-> LookupError(txid)]
    ELSE IF r.body.kind # "json"
         THEN [raised |-> TRUE, decoded |-> TRUE, exc |-> Raise("ValueError")]
         ELSE [raised |-> FALSE, decoded |-> TRUE, value |-> r.body.doc]

-----------------------------------------------------------------------------
(* What the remote providers may answer *)

Statuses == {200, 204, 404}
Txids == {"txid1", "txid2"}
Addrs == {"1ABC", "1XYZ"}

Payload == <<"6","a","0","6","6","f","7","0","0","0","a","a","b","b","c","c">>
Hex(n) == SubSeq(Payload, 1, n)
AnchorScripts == {Hex(0), Hex(4), Hex(12), Hex(16)}
P2PKH == <<"7","6","a","9","1","4","8","8","a","c">>

EmptyObj == [k \in {} |-> 0]
Opt(k, V) == {EmptyObj} \cup {k :> v : v \in V}

\* Zero-value outputs: with or without the script field, a spent marker and
\* an address.
\* Other outputs: value present or missing, spent marker missing, false or
\* true, address missing or present.
BlockchainInfoOutputs ==
    {("value" :> 0) @@ s @@ sp @@ a :
        s \in Opt("script", AnchorScripts),
        sp \in Opt("spent", {TRUE}),
        a \in Opt("addr", {"1ABC"})}
    \cup
    {("script" :> P2PKH) @@ v @@ sp @@ a :
        v \in Opt("value", {1000}),
        sp \in Opt("spent", {FALSE, TRUE}),
        a \in Opt("addr", Addrs)}

BlockrIOOutputs ==
    {("amount" :> 0) @@ s @@ sp @@ a :
        s \in Opt("extras", {("script" :> x) : x \in AnchorScripts}),
        sp \in Opt("is_spent", {SpentMark}),
        a \in Opt("address", {"1ABC"})}
    \cup
    {("extras" :> ("script" :> P2PKH)) @@ v @@ sp @@ a :
        v \in Opt("amount", {1000}),
        sp \in Opt("is_spent", {0, 1, SpentMark}),
        a \in Opt("address", Addrs)}

BlockcypherOutputs ==
    {("value" :> 0) @@ s @@ sp @@ a :
        s \in Opt("data_hex", AnchorScripts),
        sp \in Opt("spent_by", {"b7e1"}),
        a \in Opt("addresses", {<<"1ABC">>})}
    \cup
    {("script" :> P2PKH) @@ v @@ sp @@ a :
        v \in Opt("value", {1000}),
        sp \in Opt("spent_by", {"b7e1"}),
        a \in Opt("addresses", {<<>>, <<"1ABC">>, <<"1XYZ", "1ABC">>})}

Outputs(class) ==
    CASE class = "BlockchainInfoConnector" -> BlockchainInfoOutputs
      [] class = "BlockrIOConnector" -> BlockrIOOutputs
      [] class = "BlockcypherConnector" -> BlockcypherOutputs

Doc(class, outs) ==
    CASE class = "BlockchainInfoConnector" -> ("out" :> outs)
      [] class = "BlockrIOConnector" -> ("data" :> ("vouts" :> outs))
      [] class = "BlockcypherConnector" -> ("outputs" :> outs)

SeqsUpTo(S, n) == UNION {[1..k -> S] : k \in 0..n}

NotJson == [kind |-> "text"]
Json(doc) == [kind |-> "json", doc |-> doc]
ErrorDoc == ("error" :> "Transaction not found")

\* A body that parses to a TransactionData, sent with a failure status.
Anchored(class) ==
    Json(Doc(class, <<CHOOSE o \in Outputs(class) :
                        parse_tx(class, Doc(class, <<o>>)).kind = "TransactionData">>))

ResponsesOf(class) ==
    {[status_code |-> OK, body |-> b] :
        b \in {NotJson, Json(ErrorDoc)}
              \cup {Json(Doc(class, outs)) :
                      outs \in SeqsUpTo(Outputs(class), MaxOutputs)}}
    \cup {[status_code |-> s, body |-> b] :
            s \in Statuses \ {OK}, b \in {NotJson, Json(ErrorDoc), Anchored(class)}}

BlockchainInfoResponses == ResponsesOf("BlockchainInfoConnector")
BlockrIOResponses == ResponsesOf("BlockrIOConnector")
BlockcypherResponses == ResponsesOf("BlockcypherConnector")

Responses(class) ==
    CASE class = "BlockchainInfoConnector" -> BlockchainInfoResponses
      [] class = "BlockrIOConnector" -> BlockrIOResponses
      [] class = "BlockcypherConnector" -> BlockcypherResponses

-----------------------------------------------------------------------------
(* The state machine *)

NoCall == [op |-> "none"]
NoRequest == [url |-> <<>>, txid |-> ""]
NoResponse == [status_code |-> 0, body |-> [kind |-> "none"]]
NoJson == ("undecoded" :> TRUE)
NoResult == [kind |-> "none"]
NotRun == [kind |-> "notrun"]

Init ==
    /\ connector = NoConnector
    /\ call = NoCall
    /\ inflight = NoRequest
    /\ gets = 0
    /\ response = NoResponse
    /\ decoded = FALSE
    /\ json_response = NoJson
    /\ parses = 0
    /\ result = NoResult
    /\ reparsed = NotRun

\* SomeConnector(chain): the caller instantiates a connector class.
Construct(class, chain) ==
    /\ connector = NoConnector
    /\ LET c == New(class, chain)
       IN  /\ connector' = IF c.kind = "connector" THEN c ELSE connector
           /\ call' = [op |-> class, chain |-> chain,
                       raised |-> IF c.kind = "connector" THEN "" ELSE c.kind]
    /\ UNCHANGED <<inflight, gets, response, decoded, json_response, parses,
                   result, reparsed>>

\* createTransactionLookupConnector(chain), chain defaulting to Chain.mainnet.
Create(chain) ==
    /\ connector = NoConnector
    /\ LET c == createTransactionLookupConnector(chain)
       IN  /\ connector' = IF c.kind = "connector" THEN c ELSE connector
           /\ call' = [op |-> "createTransactionLookupConnector", chain |-> chain,
                       raised |-> IF c.kind = "connector" THEN "" ELSE c.kind]
    /\ UNCHANGED <<inflight, gets, response, decoded, json_response, parses,
                   result, reparsed>>

\* lookup_tx(txid) with "self.url = self.url % txid; requests.get(self.url)".
LookupTxFormatsInPlace(txid) ==
    /\ connector # NoConnector
    /\ inflight = NoRequest
    /\ inflight' = [url |-> Format(connector.url, txid), txid |-> txid]
    /\ connector' = [connector EXCEPT !.url = Format(connector.url, txid)]
    /\ gets' = 1
    /\ call' = [op |-> "lookup_tx"]
    /\ response' = NoResponse
    /\ decoded' = FALSE
    /\ json_response' = NoJson
    /\ parses' = 0
    /\ result' = NoResult
    /\ reparsed' = NotRun

\* lookup_tx(txid) up to the point where requests.get blocks.
LookupTx(txid) ==
    /\ connector # NoConnector
    /\ inflight = NoRequest
    /\ inflight' = [url |-> Format(connector.url, txid), txid |-> txid]
    /\ gets' = 1
    /\ call' = [op |-> "lookup_tx"]
    /\ response' = NoResponse
    /\ decoded' = FALSE
    /\ json_response' = NoJson
    /\ parses' = 0
    /\ result' = NoResult
    /\ reparsed' = NotRun
    /\ UNCHANGED connector

\* The rest of lookup_tx with a parse_tx that pops the outputs it visits.
HttpResponseConsuming(r) ==
    /\ inflight # NoRequest
    /\ LET f == fetch_tx(inflight.txid, r)
       IN  /\ response' = r
           /\ decoded' = f.decoded
           /\ IF f.raised
              THEN /\ result' = f.exc
                   /\ UNCHANGED <<json_response, parses>>
              ELSE /\ result' = parse_tx(connector.class, f.value)
                   /\ json_response' = Consumed(connector.class, f.value)
                   /\ parses' = parses + 1
    /\ inflight' = NoRequest
    /\ UNCHANGED <<connector, call, gets, reparsed>>

\* requests.get returns r; the rest of fetch_tx, then parse_tx, then return.
HttpResponse(r) ==
    /\ inflight # NoRequest
    /\ LET f == fetch_tx(inflight.txid, r)
       IN  /\ response' = r
           /\ decoded' = f.decoded
           /\ IF f.raised
              THEN /\ result' = f.exc
                   /\ UNCHANGED <<json_response, parses>>
              ELSE /\ result' = parse_tx(connector.class, f.value)
                   /\ json_response' = f.value
                   /\ parses' = parses + 1
    /\ inflight' = NoRequest
    /\ UNCHANGED <<connector, call, gets, reparsed>>

\* requests.get raises instead of returning a response.
TransportFailure ==
    /\ inflight # NoRequest
    /\ inflight' = NoRequest
    /\ result' = Raise("ConnectionError")
    /\ UNCHANGED <<connector, call, gets, response, decoded, json_response,
                   parses, reparsed>>

\* The caller runs parse_tx once more on the same json_response.
ParseTxAgain ==
    /\ inflight = NoRequest
    /\ json_response # NoJson
    /\ reparsed = NotRun
    /\ reparsed' = parse_tx(connector.class, json_response)
    /\ UNCHANGED <<connector, call, inflight, gets, response, decoded,
                   json_response, parses, result>>

Next ==
    \/ \E class \in Classes, chain \in Chains \cup {Unspecified} :
          Construct(class, chain)
    \/ \E chain \in Chains \cup {Unspecified} : Create(chain)
    \/ \E txid \in Txids : LookupTx(txid)
    \/ /\ inflight # NoRequest
       /\ \E r \in Responses(connector.class) : HttpResponse(r)
    \/ TransportFailure
    \/ ParseTxAgain

Spec == Init /\ [][Next]_vars

-----------------------------------------------------------------------------
(* Vocabulary of the claims *)

A == "BlockchainInfoConnector"
B == "BlockrIOConnector"
C == "BlockcypherConnector"

\* lookup_tx got as far as parse_tx, on a response that holds an output list.
Listed ==
    /\ call.op = "lookup_tx"
    /\ parses = 1
    /\ HasOutputs(connector.class, response.body.doc)

Outs == OutputsOf(connector.class, response.body.doc)

ValueKey(class) == IF class = B THEN "amount" ELSE "value"
ZeroValue(class, o) == ValueKey(class) \in DOMAIN o /\ o[ValueKey(class)] = 0
NoValue(class, o) == ValueKey(class) \notin DOMAIN o

HasScript(class, o) ==
    CASE class = A -> "script" \in DOMAIN o
      [] class = B -> "extras" \in DOMAIN o /\ "script" \in DOMAIN o["extras"]
      [] class = C -> "data_hex" \in DOMAIN o

ScriptField(class, o) ==
    CASE class = A -> o["script"]
      [] class = B -> o["extras"]["script"]
      [] class = C -> o["data_hex"]

\* The spent indicator is present and true.
Marked(class, o) ==
    CASE class = A -> "spent" \in DOMAIN o /\ o["spent"] = TRUE
      [] class = B -> "is_spent" \in DOMAIN o /\ o["is_spent"] # 0
      [] class = C -> "spent_by" \in DOMAIN o /\ o["spent_by"] # ""

HasAddress(class, o) ==
    CASE class = A -> "addr" \in DOMAIN o
      [] class = B -> "address" \in DOMAIN o
      [] class = C -> "addresses" \in DOMAIN o /\ o["addresses"] # <<>>

AddressOf(class, o) ==
    IF ~HasAddress(class, o) THEN NoneAddr
    ELSE CASE class = A -> o["addr"]
           [] class = B -> o["address"]
           [] class = C -> o["addresses"][1]

ZeroIndexes == {i \in DOMAIN Outs : ZeroValue(connector.class, Outs[i])}
LastZero == CHOOSE i \in ZeroIndexes : \A j \in ZeroIndexes : j <= i

\* Exactly one zero-value output, whose script is 8 characters and then more.
OneAnchor ==
    /\ Listed
    /\ Cardinality(ZeroIndexes) = 1
    /\ HasScript(connector.class, Outs[LastZero])
    /\ Len(ScriptField(connector.class, Outs[LastZero])) > 8

AnchorScript == ScriptField(connector.class, Outs[LastZero])

\* A spent output that is not zero-value and names no address.
Addressless ==
    \E i \in DOMAIN Outs :
        /\ ~ZeroValue(connector.class, Outs[i])
        /\ Marked(connector.class, Outs[i])
        /\ ~HasAddress(connector.class, Outs[i])

-----------------------------------------------------------------------------
(* C1 *)

-----------------------------------------------------------------------------
(* C2 *)

\* C2: a response whose output list holds no zero-value output makes parse_tx
\* fail with InvalidTransactionError, and no returned result has an empty or
\* unset embedded_script.
C2_MissingAnchor ==
    /\ (Listed /\ ZeroIndexes = {}) => result.kind = "InvalidTransactionError"
    /\ result.kind = "TransactionData" => result.script \notin {<<>>, None}

-----------------------------------------------------------------------------
(* C3 *)

\* C3: a lookup whose response has a status code other than 200 fails with
\* InvalidTransactionError naming the requested txid, whatever the body: the
\* body is not decoded, parse_tx is not called, nothing is returned.
C3_StatusFailure ==
    [][(inflight # NoRequest /\ response' # NoResponse
            /\ response'.status_code # 200) =>
          /\ result' = [kind |-> "InvalidTransactionError",
                        message |-> <<"error looking up transaction_id=",
                                      inflight.txid>>]
          /\ decoded' = FALSE
          /\ parses' = 0
          /\ json_response' = NoJson
          /\ inflight' = NoRequest]_vars

C3_Witness ==
    /\ call.op = "lookup_tx"
    /\ response.status_code = 404
    /\ response.body = Anchored(connector.class)
    /\ result.kind = "InvalidTransactionError"
    /\ result.message[2] = "txid2"
    /\ ~decoded

-----------------------------------------------------------------------------
(* C4 *)

\* C4: in a response that parses, an output that is not zero-value adds its
\* address to revoked_addresses when its spent indicator is present and
\* true, and adds nothing when the indicator is absent or false.
C4_SpentIndicator ==
    (Listed /\ result.kind = "TransactionData") =>
        /\ \A i \in DOMAIN Outs :
              (~ZeroValue(connector.class, Outs[i]) /\ Marked(connector.class, Outs[i]))
                  => AddressOf(connector.class, Outs[i]) \in result.revoked
        /\ \A a \in result.revoked :
              \E i \in DOMAIN Outs :
                  /\ ~ZeroValue(connector.class, Outs[i])
                  /\ Marked(connector.class, Outs[i])
                  /\ AddressOf(connector.class, Outs[i]) = a

-----------------------------------------------------------------------------
(* C5 *)

\* C5: the network is validated when the connector is constructed.  B and C
\* accept mainnet and testnet, with different URL templates; A rejects every
\* chain but mainnet; B and C reject every other value; a rejected
\* construction yields no connector.
C5_Construction ==
    call.op \in Classes =>
        /\ (call.op \in {B, C} /\ call.chain \in {"mainnet", "testnet"}) =>
              /\ call.raised = ""
              /\ connector.class = call.op
              /\ connector.url =
                    IF call.op = B
                    THEN (IF call.chain = "mainnet" THEN BlockrIOMainnetUrl
                                                    ELSE BlockrIOTestnetUrl)
                    ELSE (IF call.chain = "mainnet" THEN BlockcypherMainnetUrl
                                                    ELSE BlockcypherTestnetUrl)
        /\ BlockrIOMainnetUrl # BlockrIOTestnetUrl
        /\ BlockcypherMainnetUrl # BlockcypherTestnetUrl
        /\ (call.op = A /\ call.chain \in {"testnet", "regtest"}) =>
              call.raised = "Exception" /\ connector = NoConnector
        /\ (call.op = A /\ call.chain = "mainnet") =>
              call.raised = "" /\ connector = Connector(A, BlockchainInfoUrl)
        /\ (call.op \in {B, C} /\ call.chain = "regtest") =>
              call.raised = "Exception" /\ connector = NoConnector
        /\ call.raised # "" => connector = NoConnector /\ ~ENABLED (\E t \in Txids : LookupTx(t))

C5_Witness ==
    /\ call.op = A
    /\ call.chain = "testnet"
    /\ call.raised = "Exception"
    /\ connector = NoConnector

-----------------------------------------------------------------------------
(* C6 *)

\* C6: createTransactionLookupConnector always builds a BlockrIOConnector for
\* the requested chain, mainnet when none is given, and fails only where
\* that constructor fails.
C6_Factory ==
    call.op = "createTransactionLookupConnector" =>
        CASE call.chain \in {"mainnet", Unspecified} ->
                call.raised = "" /\ connector = Connector(B, BlockrIOMainnetUrl)
          [] call.chain = "testnet" ->
                call.raised = "" /\ connector = Connector(B, BlockrIOTestnetUrl)
          [] OTHER ->
                call.raised = "Exception" /\ connector = NoConnector

C6_Witness ==
    /\ call.op = "createTransactionLookupConnector"
    /\ call.chain = Unspecified
    /\ connector = Connector(B, BlockrIOMainnetUrl)

-----------------------------------------------------------------------------
(* C7 *)

\* C7: a lookup_tx issues exactly one GET, to the connector's URL with the
\* txid in place of %s, and parse_tx runs at most once and only after that
\* GET returned with status 200.
C7_OneRoundTrip ==
    call.op = "lookup_tx" =>
        /\ gets = 1
        /\ inflight # NoRequest =>
              /\ parses = 0
              /\ ~decoded
              /\ Len(inflight.url) = Len(connector.url)
              /\ \A i \in DOMAIN connector.url :
                    inflight.url[i] =
                        IF connector.url[i] = "%s" THEN inflight.txid
                                                   ELSE connector.url[i]
        /\ parses \in {0, 1}
        /\ parses = 1 =>
              /\ inflight = NoRequest
              /\ response.status_code = 200
              /\ decoded
        /\ (inflight = NoRequest /\ parses = 0) =>
              result.kind \in {"InvalidTransactionError", "ValueError",
                               "ConnectionError"}

C7_Witness ==
    /\ call.op = "lookup_tx"
    /\ gets = 1
    /\ parses = 1
    /\ response.status_code = 200
    /\ result.kind = "TransactionData"

-----------------------------------------------------------------------------
(* C8 *)

-----------------------------------------------------------------------------
(* C9 *)

\* C9: lookups leave the connector's URL template as construction set it,
\* and what a lookup returns comes from that call's response alone: every
\* revoked address and the script are found in the response just parsed.
C9_NoCarryOver ==
    /\ [][connector.kind = "connector" => connector' = connector]_vars
    /\ []((call.op = "lookup_tx" /\ result.kind = "TransactionData") =>
            /\ Listed
            /\ \A a \in result.revoked :
                  \E i \in DOMAIN Outs : AddressOf(connector.class, Outs[i]) = a
            /\ \E i \in DOMAIN Outs :
                  /\ HasScript(connector.class, Outs[i])
                  /\ \E k \in 0..Len(ScriptField(connector.class, Outs[i])) :
                        result.script =
                            SubSeq(ScriptField(connector.class, Outs[i]), k + 1,
                                   Len(ScriptField(connector.class, Outs[i]))))
    /\ [](connector.kind = "connector" =>
            connector.url \in {BlockchainInfoUrl, BlockrIOMainnetUrl,
                               BlockrIOTestnetUrl, BlockcypherMainnetUrl,
                               BlockcypherTestnetUrl})

C9_Witness ==
    /\ call.op = "lookup_tx"
    /\ result.kind = "InvalidTransactionError"
    /\ result.message = MissingScript
    /\ connector = Connector(C, BlockcypherTestnetUrl)

-----------------------------------------------------------------------------
(* C10 *)

\* C10: the returned script is taken from the last zero-value output of the
\* list; no revoked address comes from a zero-value output alone; an output
\* without a value field counts as non-zero: it is never the anchoring
\* output and its address is revoked when the provider's spent check passes.
C10_LastZeroWins ==
    (Listed /\ result.kind = "TransactionData") =>
        /\ ZeroIndexes # {}
        /\ HasScript(connector.class, Outs[LastZero])
        /\ result.script =
              IF connector.class = C THEN AnchorScript
              ELSE SubSeq(AnchorScript, 5, Len(AnchorScript))
        /\ \A a \in result.revoked :
              \E i \in DOMAIN Outs :
                  /\ ~ZeroValue(connector.class, Outs[i])
                  /\ AddressOf(connector.class, Outs[i]) = a
        /\ \A i \in DOMAIN Outs :
              (/\ NoValue(connector.class, Outs[i])
               /\ Marked(connector.class, Outs[i])
               /\ connector.class = B => Outs[i]["is_spent"] = SpentMark)
                  => AddressOf(connector.class, Outs[i]) \in result.revoked

C10_Witness ==
    /\ Listed
    /\ result.kind = "TransactionData"
    /\ Cardinality(ZeroIndexes) = 2
    /\ \A i \in ZeroIndexes :
          /\ HasScript(connector.class, Outs[i])
          /\ Marked(connector.class, Outs[i])
          /\ AddressOf(connector.class, Outs[i]) = "1ABC"
    /\ \E i \in ZeroIndexes :
          ScriptField(connector.class, Outs[i])
              # ScriptField(connector.class, Outs[LastZero])
    /\ result.revoked = {}

====
